---- MODULE Spec2Model ----
(***************************************************************************)
(* State-machine model of the credential vault core:                       *)
(*   app/security.py  SecurityManager  (key derivation, lockout, session)  *)
(*   app/vault.py     CredentialVault  (encrypted store, CRUD, audit log)  *)
(*   app/models.py    Credential / CredentialCreate / CredentialUpdate     *)
(*                                                                         *)
(* Time is the value returned by time.time().  It moves in Tick, and while  *)
(* add_credential fills the two timestamps of a record; the session checks *)
(* of a handler see its first read.  Cryptographic primitives are modelled *)
(* symbolically: a key is the pair it was derived from, a ciphertext is    *)
(* the pair (key, plaintext) and decrypts only under the same key.         *)
(***************************************************************************)
EXTENDS Integers, Sequences, FiniteSets, TLC

VARIABLES
  now,              \* time.time()
  file,             \* content of vault_path
  session_key,      \* SecurityManager.session_key   (None or <<key>>)
  last_activity,    \* SecurityManager.last_activity
  failed_attempts,  \* SecurityManager.failed_attempts
  lockout_until,    \* SecurityManager.lockout_until
  audit_logs,       \* CredentialVault.audit_logs
  audit_on,         \* whether this specification tracks audit_logs
  issued,           \* ids uuid4() has returned so far
  held,             \* sharing tokens in the hands of their recipients
  inflight,         \* per caller: the mutation that has read and not yet written
  ret               \* the last call: [op, arg, val, ...]

vars == <<now, file, session_key, last_activity, failed_attempts,
          lockout_until, audit_logs, audit_on, issued, held, inflight, ret>>

(***************************************************************************)
(* Program constants (SecurityManager.__init__, CredentialVault._log_action)*)
(***************************************************************************)
session_timeout == 300
lockout_duration == 300
max_attempts == 5
audit_capacity == 1000

(***************************************************************************)
(* Bounds of the model                                                     *)
(***************************************************************************)
MaxTicks == 5        \* clock steps in Spec and SpecLive
MaxVaultTicks == 1   \* clock steps in SpecVault
MaxLog == 5          \* audit entries in a specification that tracks the log
MaxShareTicks == 2   \* clock steps in SpecShare
MaxHeld == 1         \* sharing tokens kept by recipients in SpecShare
MaxRecorded == 1002  \* audit entries recorded in SpecCap
MaxIdleTicks == 1    \* clock steps in SpecIdle
MaxRedeemTicks == 3  \* clock steps in SpecRedeem
MaxPollTicks == 3    \* clock steps in SpecPoll

TickLen == lockout_duration \div 2
StartTime == session_timeout + lockout_duration + TickLen
EndTime == StartTime + MaxTicks * TickLen
VaultEndTime == StartTime + MaxVaultTicks * TickLen
ShareEndTime == StartTime + MaxShareTicks * TickLen
CapEndTime == StartTime + MaxRecorded * TickLen
IdleEndTime == StartTime + MaxIdleTicks * TickLen
RedeemEndTime == StartTime + MaxRedeemTicks * TickLen
PollEndTime == StartTime + MaxPollTicks * TickLen

(***************************************************************************)
(* Values                                                                  *)
(***************************************************************************)
None == <<>>
Some(x) == <<x>>

Passwords == {"master-A", "master-B"}
Salts == {"salt-1"}

NoFile == [exists |-> FALSE]

\* the callers that may be inside the vault at the same time
Callers == {"caller-1", "caller-2"}
NoInflight == [t \in Callers |-> None]

\* a file that open(vault_path, 'w') has emptied and that was not written out
TruncatedFile == [exists |-> TRUE]

\* json.load(f) of the vault file succeeds and finds its two sections
Parses(f) == f.exists /\ "metadata" \in DOMAIN f

\* a ciphertext that fernet.decrypt rejects under every key
NoKey == [kdf |-> "none", password |-> "", salt |-> ""]

(***************************************************************************)
(* KeyDerivation                                                           *)
(***************************************************************************)
derive_key(password, salt) == [kdf |-> "pbkdf2", password |-> password, salt |-> salt]

hash_master_password(password) == [alg |-> "bcrypt", password |-> password]

\* mutant: the comparison of the verifier is inverted
verify_master_password_Inverted(password, hashed) == hashed.password # password

\* mutant: every password is accepted
verify_master_password_AcceptsAll(password, hashed) == TRUE

verify_master_password(password, hashed) == hashed.password = password

FernetEncrypt(key, data) == [key |-> key, data |-> data]

FernetCanDecrypt(key, token) == token.key = key

FernetDecrypt(key, token) == token.data

(***************************************************************************)
(* LockoutGuard                                                            *)
(***************************************************************************)
\* mutant: the deadline itself still counts as locked
is_locked_out_Inclusive == now <= lockout_until

\* mutant: the lockout gate never closes
is_locked_out_Disabled == FALSE

is_locked_out == now < lockout_until

\* mutant: the threshold is compared with > instead of >=
record_failed_attempt_OffByOne ==
  LET n == failed_attempts + 1
  IN  <<n, IF n > max_attempts THEN now + lockout_duration ELSE lockout_until>>

\* mutant: a failure after a lockout that has ended starts a new count
record_failed_attempt_CountsAfresh ==
  LET n == IF lockout_until # 0 /\ ~(now < lockout_until)
           THEN 1 ELSE failed_attempts + 1
  IN  <<n, IF n >= max_attempts THEN now + lockout_duration ELSE lockout_until>>

\* the pair <<failed_attempts, lockout_until>> after record_failed_attempt()
record_failed_attempt ==
  LET n == failed_attempts + 1
  IN  <<n, IF n >= max_attempts THEN now + lockout_duration ELSE lockout_until>>

\* mutant: the counter is reset but the lockout deadline is kept
reset_failed_attempts_KeepsDeadline == <<0, lockout_until>>

\* the pair <<failed_attempts, lockout_until>> after reset_failed_attempts()
reset_failed_attempts == <<0, 0>>

(***************************************************************************)
(* SessionState                                                            *)
(***************************************************************************)
\* mutant: the idle timeout is not checked
is_session_valid_NoTimeout == session_key # None

\* mutant: a session counts as valid only while the vault is not locked out
is_session_valid_UnlessLockedOut ==
  /\ session_key # None
  /\ ~(now - last_activity > session_timeout)
  /\ ~is_locked_out

\* the value is_session_valid() returns
is_session_valid ==
  /\ session_key # None
  /\ ~(now - last_activity > session_timeout)

\* mutant: an expired key is reported invalid but not discarded
KeyAfterCheck_KeepsKey == session_key

\* session_key after is_session_valid() has run
KeyAfterCheck == IF is_session_valid THEN session_key ELSE None

load_vault_metadata == IF Parses(file) THEN Some(file.metadata) ELSE None

(***************************************************************************)
(* AuditTrail                                                              *)
(***************************************************************************)
\* AuditLog(action=..., credential_id=..., details=...) created at time
LogEntry(time, action, credential_id, details) ==
  [timestamp |-> time, action |-> action, credential_id |-> credential_id,
   details |-> details]

\* mutant: the truncation keeps the oldest audit_capacity entries
Truncated_KeepsOldest(logs) ==
  IF Len(logs) > audit_capacity THEN SubSeq(logs, 1, audit_capacity) ELSE logs

\* if len(self.audit_logs) > 1000: self.audit_logs = self.audit_logs[-1000:]
Truncated(logs) ==
  IF Len(logs) > audit_capacity
  THEN SubSeq(logs, Len(logs) - audit_capacity + 1, Len(logs))
  ELSE logs

\* audit_logs after _log_action(...) run at time
LogActionAt(logs, time, action, credential_id, details) ==
  Truncated(Append(logs, LogEntry(time, action, credential_id, details)))

LogAction(logs, action, credential_id, details) ==
  LogActionAt(logs, now, action, credential_id, details)

\* A call of _log_action.  No handler but get_audit_logs reads audit_logs, so
\* a specification whose claims do not read the log starts with audit_on
\* FALSE and leaves the log out of its state; one that tracks the log starts
\* with audit_on TRUE.
LoggedAt(time, action, credential_id, details) ==
  audit_logs' = IF audit_on
                THEN LogActionAt(audit_logs, time, action, credential_id, details)
                ELSE audit_logs

Logged(action, credential_id, details) ==
  LoggedAt(now, action, credential_id, details)

(***************************************************************************)
(* Handlers                                                                *)
(***************************************************************************)
Tick ==
  /\ now' = now + TickLen
  /\ ret' = [op |-> "tick"]
  /\ UNCHANGED <<file, session_key, last_activity, failed_attempts,
                 lockout_until, audit_logs, audit_on, held, inflight, issued>>

\* SecurityManager.create_vault / CredentialVault.create_vault
create_vault(master_password, salt) ==
  LET vault_metadata == [salt |-> salt,
                         master_hash |-> hash_master_password(master_password),
                         created_at |-> now,
                         version |-> "1.0"]
      key == derive_key(master_password, salt)
      empty_credentials == FernetEncrypt(key, <<>>)
  IN  /\ file' = [exists |-> TRUE, metadata |-> vault_metadata,
                  credentials |-> empty_credentials]
      /\ ret' = [op |-> "create_vault", arg |-> master_password,
                 existed |-> file.exists, val |-> TRUE]
      /\ UNCHANGED <<now, session_key, last_activity, failed_attempts,
                     lockout_until, audit_logs, audit_on, held, inflight, issued>>

\* SecurityManager.authenticate wrapped by CredentialVault.authenticate
authenticate(master_password) ==
  /\ IF is_locked_out
     THEN /\ ret' = [op |-> "authenticate", arg |-> master_password,
                     val |-> FALSE, consulted |-> FALSE]
          /\ UNCHANGED <<session_key, last_activity, failed_attempts, lockout_until>>
     ELSE LET vault_data == load_vault_metadata
          IN  IF vault_data = None
              THEN /\ ret' = [op |-> "authenticate", arg |-> master_password,
                              val |-> FALSE, consulted |-> TRUE]
                   /\ UNCHANGED <<session_key, last_activity, failed_attempts,
                                  lockout_until>>
              ELSE IF verify_master_password(master_password, vault_data[1].master_hash)
                   THEN /\ session_key' = Some(derive_key(master_password, vault_data[1].salt))
                        /\ failed_attempts' = reset_failed_attempts[1]
                        /\ lockout_until' = reset_failed_attempts[2]
                        /\ last_activity' = now
                        /\ ret' = [op |-> "authenticate", arg |-> master_password,
                                   val |-> TRUE, consulted |-> TRUE]
                   ELSE /\ failed_attempts' = record_failed_attempt[1]
                        /\ lockout_until' = record_failed_attempt[2]
                        /\ ret' = [op |-> "authenticate", arg |-> master_password,
                                   val |-> FALSE, consulted |-> TRUE]
                        /\ UNCHANGED <<session_key, last_activity>>
  /\ Logged("LOGIN", None, [success |-> ret'.val])
  /\ UNCHANGED <<now, file, audit_on, held, inflight, issued>>

\* mutant: a poll of a valid session counts as activity
is_authenticated_Refreshes ==
  /\ session_key' = KeyAfterCheck
  /\ last_activity' = IF is_session_valid THEN now ELSE last_activity
  /\ ret' = [op |-> "is_authenticated", val |-> is_session_valid]
  /\ UNCHANGED <<now, file, failed_attempts, lockout_until,
                 audit_logs, audit_on, held, inflight, issued>>

\* CredentialVault.is_authenticated
is_authenticated ==
  /\ session_key' = KeyAfterCheck
  /\ ret' = [op |-> "is_authenticated", val |-> is_session_valid]
  /\ UNCHANGED <<now, file, last_activity, failed_attempts, lockout_until,
                 audit_logs, audit_on, held, inflight, issued>>

\* CredentialVault.is_locked_out called by an adapter
poll_locked_out ==
  /\ ret' = [op |-> "is_locked_out", val |-> is_locked_out]
  /\ UNCHANGED <<now, file, session_key, last_activity, failed_attempts,
                 lockout_until, audit_logs, audit_on, held, inflight, issued>>

\* mutant: logout zeroes last_activity but keeps the key
logout_KeepsKey ==
  /\ Logged("LOGOUT", None, None)
  /\ last_activity' = 0
  /\ ret' = [op |-> "logout"]
  /\ UNCHANGED <<now, file, session_key, failed_attempts, lockout_until,
                 audit_on, held, inflight, issued>>

\* CredentialVault.logout, then SecurityManager.logout
logout ==
  /\ Logged("LOGOUT", None, None)
  /\ session_key' = None
  /\ last_activity' = 0
  /\ ret' = [op |-> "logout"]
  /\ UNCHANGED <<now, file, failed_attempts, lockout_until, audit_on, held, inflight, issued>>

(***************************************************************************)
(* VaultStore: the read and write halves of every credential operation     *)
(***************************************************************************)
\* Credential(**cred_data): pydantic rejects None for a non-Optional field
Validates(cred_data) ==
  /\ cred_data.service_name # None
  /\ cred_data.username # None
  /\ cred_data.password # None
  /\ cred_data.tags # None

\* _load_credentials reaches its update_activity() and returns the stored map
LoadOk ==
  /\ is_session_valid
  /\ Parses(file)
  /\ FernetCanDecrypt(session_key[1], file.credentials)
  /\ LET credentials_dict == FernetDecrypt(session_key[1], file.credentials)
     IN  \A i \in 1..Len(credentials_dict) : Validates(credentials_dict[i])

\* the map _load_credentials returns ({} on every failure)
_load_credentials ==
  IF LoadOk THEN FernetDecrypt(session_key[1], file.credentials) ELSE <<>>

\* last_activity after _load_credentials
ActivityAfterLoad == IF LoadOk THEN now ELSE last_activity

\* _save_credentials succeeds (called at the instant of a valid session check)
SaveOk == is_session_valid /\ Parses(file)

\* mutant: a save writes new metadata around the blob
SavedFile_NewMetadata(credentials) ==
  [file EXCEPT !.credentials = FernetEncrypt(session_key[1], credentials),
               !.metadata.created_at = now + 1]

\* the vault file after _save_credentials(credentials)
SavedFile(credentials) ==
  [file EXCEPT !.credentials = FernetEncrypt(session_key[1], credentials)]

\* dictionary operations on the insertion-ordered map {id -> Credential}
HasId(credentials, credential_id) ==
  \E i \in 1..Len(credentials) : credentials[i].id = credential_id

IndexOfId(credentials, credential_id) ==
  CHOOSE i \in 1..Len(credentials) : credentials[i].id = credential_id

DictGet(credentials, credential_id) ==
  IF HasId(credentials, credential_id)
  THEN Some(credentials[IndexOfId(credentials, credential_id)])
  ELSE None

\* mutant: an assignment to the map always makes a new entry
DictSet_AlwaysAppends(credentials, credential) == Append(credentials, credential)

DictSet(credentials, credential) ==
  IF HasId(credentials, credential.id)
  THEN [credentials EXCEPT ![IndexOfId(credentials, credential.id)] = credential]
  ELSE Append(credentials, credential)

\* mutant: del removes the oldest entry instead of the one asked for
DictDel_DropsFirst(credentials, credential_id) == Tail(credentials)

DictDel(credentials, credential_id) ==
  LET k == IndexOfId(credentials, credential_id)
  IN  SubSeq(credentials, 1, k - 1) \o SubSeq(credentials, k + 1, Len(credentials))

\* a handler's first statement found no valid session
Denied(op, arg, val) ==
  /\ session_key' = KeyAfterCheck
  /\ ret' = [op |-> op, arg |-> arg, val |-> val]
  /\ UNCHANGED <<now, file, last_activity, failed_attempts, lockout_until,
                 audit_logs, audit_on, held, inflight, issued>>

(***************************************************************************)
(* CredentialEngine                                                        *)
(***************************************************************************)
\* mutant: the tags of the request are not copied into the record
NewCredential_DropsTags(credential_id, credential_data, elapsed) ==
  [id |-> credential_id,
   service_name |-> credential_data.service_name,
   username |-> credential_data.username,
   password |-> credential_data.password,
   notes |-> credential_data.notes,
   created_at |-> now,
   updated_at |-> now + elapsed,
   tags |-> Some(<<>>)]

\* Credential(id=credential_id, **credential_data.dict()).  created_at and
\* updated_at are filled by two calls of time.time(), one per field; elapsed
\* is what the clock moved between the two.
NewCredential(credential_id, credential_data, elapsed) ==
  [id |-> credential_id,
   service_name |-> credential_data.service_name,
   username |-> credential_data.username,
   password |-> credential_data.password,
   notes |-> credential_data.notes,
   created_at |-> now,
   updated_at |-> now + elapsed,
   tags |-> credential_data.tags]

\* mutant: the audit entry of an add also keeps the new password
AddDetails_KeepsPassword(credential_data) ==
  [service_name |-> credential_data.service_name,
   password |-> credential_data.password]

\* the details add_credential hands to _log_action
AddDetails(credential_data) == [service_name |-> credential_data.service_name]

add_credential(credential_data, credential_id, elapsed) ==
  IF ~is_session_valid
  THEN Denied("add_credential", credential_data, None)
  ELSE LET credentials == DictSet(_load_credentials,
                                  NewCredential(credential_id, credential_data, elapsed))
       IN  /\ credential_id \notin issued      \* uuid4() returns a fresh id
           /\ issued' = issued \cup {credential_id}
           /\ now' = now + elapsed
           /\ IF SaveOk
              THEN /\ file' = SavedFile(credentials)
                   /\ last_activity' = now + elapsed
                   /\ LoggedAt(now + elapsed, "ADD_CREDENTIAL", Some(credential_id),
                               AddDetails(credential_data))
                   /\ ret' = [op |-> "add_credential", arg |-> credential_data,
                              val |-> Some(credential_id)]
              ELSE /\ last_activity' = ActivityAfterLoad
                   /\ ret' = [op |-> "add_credential", arg |-> credential_data,
                              val |-> None]
                   /\ UNCHANGED <<file, audit_logs>>
           /\ UNCHANGED <<session_key, failed_attempts, lockout_until, audit_on, held, inflight>>

get_credential(credential_id) ==
  /\ IF ~is_session_valid
     THEN Denied("get_credential", credential_id, None)
     ELSE LET credential == DictGet(_load_credentials, credential_id)
          IN  /\ last_activity' = ActivityAfterLoad
              /\ IF credential # None
                 THEN Logged("VIEW_CREDENTIAL", Some(credential_id),
                             [service_name |-> credential[1].service_name])
                 ELSE UNCHANGED audit_logs
              /\ ret' = [op |-> "get_credential", arg |-> credential_id,
                         val |-> credential]
              /\ UNCHANGED <<now, file, session_key, failed_attempts, lockout_until,
                             audit_on, held, inflight, issued>>

get_all_credentials ==
  /\ IF ~is_session_valid
     THEN Denied("get_all_credentials", None, <<>>)
     ELSE /\ last_activity' = ActivityAfterLoad
          /\ Logged("LIST_CREDENTIALS", None, [count |-> Len(_load_credentials)])
          /\ ret' = [op |-> "get_all_credentials", arg |-> None,
                     val |-> _load_credentials]
          /\ UNCHANGED <<now, file, session_key, failed_attempts, lockout_until,
                         audit_on, held, inflight, issued>>

\* setattr(credential, field, value) for every supplied field, then updated_at
ApplyUpdate(credential, update_dict) ==
  [f \in DOMAIN credential |->
     IF f = "updated_at" THEN now
     ELSE IF f \in DOMAIN update_dict THEN update_dict[f]
     ELSE credential[f]]

update_credential(credential_id, update_dict) ==
  /\ IF ~is_session_valid
     THEN Denied("update_credential", <<credential_id, update_dict>>, FALSE)
     ELSE LET credentials == _load_credentials
          IN  IF ~HasId(credentials, credential_id)
              THEN /\ last_activity' = ActivityAfterLoad
                   /\ ret' = [op |-> "update_credential",
                              arg |-> <<credential_id, update_dict>>, val |-> FALSE]
                   /\ UNCHANGED <<now, file, session_key, failed_attempts,
                                  lockout_until, audit_logs, audit_on, held, inflight, issued>>
              ELSE LET credential == ApplyUpdate(DictGet(credentials, credential_id)[1],
                                                 update_dict)
                   IN  /\ IF SaveOk
                          THEN /\ file' = SavedFile(DictSet(credentials, credential))
                               /\ Logged("UPDATE_CREDENTIAL", Some(credential_id),
                                         [service_name |-> credential.service_name,
                                          updated_fields |-> DOMAIN update_dict])
                               /\ ret' = [op |-> "update_credential",
                                          arg |-> <<credential_id, update_dict>>,
                                          val |-> TRUE]
                          ELSE /\ ret' = [op |-> "update_credential",
                                          arg |-> <<credential_id, update_dict>>,
                                          val |-> FALSE]
                               /\ UNCHANGED <<file, audit_logs>>
                       /\ last_activity' = now
                       /\ UNCHANGED <<now, session_key, failed_attempts,
                                      lockout_until, audit_on, held, inflight, issued>>

\* mutant: delete does not look for the id first; it writes the map back
\* and reports success whether the id was there or not
delete_credential_IgnoresMissing(credential_id) ==
  /\ IF ~is_session_valid
     THEN Denied("delete_credential", credential_id, FALSE)
     ELSE LET credentials == _load_credentials
              kept == IF HasId(credentials, credential_id)
                      THEN DictDel(credentials, credential_id)
                      ELSE credentials
          IN  /\ IF SaveOk
                 THEN /\ file' = SavedFile(kept)
                      /\ ret' = [op |-> "delete_credential",
                                 arg |-> credential_id, val |-> TRUE]
                 ELSE /\ ret' = [op |-> "delete_credential",
                                 arg |-> credential_id, val |-> FALSE]
                      /\ UNCHANGED file
              /\ last_activity' = now
              /\ UNCHANGED <<now, session_key, failed_attempts, lockout_until,
                             audit_logs, audit_on, held, inflight, issued>>

delete_credential(credential_id) ==
  /\ IF ~is_session_valid
     THEN Denied("delete_credential", credential_id, FALSE)
     ELSE LET credentials == _load_credentials
          IN  IF ~HasId(credentials, credential_id)
              THEN /\ last_activity' = ActivityAfterLoad
                   /\ ret' = [op |-> "delete_credential", arg |-> credential_id,
                              val |-> FALSE]
                   /\ UNCHANGED <<now, file, session_key, failed_attempts,
                                  lockout_until, audit_logs, audit_on, held, inflight, issued>>
              ELSE LET credential == DictGet(credentials, credential_id)[1]
                   IN  /\ IF SaveOk
                          THEN /\ file' = SavedFile(DictDel(credentials, credential_id))
                               /\ Logged("DELETE_CREDENTIAL", Some(credential_id),
                                         [service_name |-> credential.service_name])
                               /\ ret' = [op |-> "delete_credential",
                                          arg |-> credential_id, val |-> TRUE]
                          ELSE /\ ret' = [op |-> "delete_credential",
                                          arg |-> credential_id, val |-> FALSE]
                               /\ UNCHANGED <<file, audit_logs>>
                       /\ last_activity' = now
                       /\ UNCHANGED <<now, session_key, failed_attempts,
                                      lockout_until, audit_on, held, inflight, issued>>

(***************************************************************************)
(* Search                                                                  *)
(***************************************************************************)
\* str.lower() on the characters the model uses
LowerChar(c) ==
  CASE c = "A" -> "a" [] c = "B" -> "b" [] c = "E" -> "e" [] c = "M" -> "m"
    [] c = "W" -> "w" [] c = "X" -> "x"
    [] OTHER -> c

Lower(text) == [i \in 1..Len(text) |-> LowerChar(text[i])]

\* Python's  needle in haystack  on strings
Contains(haystack, needle) ==
  \E k \in 0..(Len(haystack) - Len(needle)) :
    \A i \in 1..Len(needle) : haystack[k + i] = needle[i]

\* Python's  tag in credential.tags  on lists
InList(list, x) == \E i \in 1..Len(list) : list[i] = x

\* truthiness of an Optional[str] / Optional[List[str]] argument
Truthy(opt) == opt # None /\ opt[1] # <<>>

\* the body of the loop of search_credentials
Matches(credential, query, tags) ==
  LET text_ok ==
        IF Truthy(query)
        THEN LET query_lower == Lower(query[1])
             IN  \/ Contains(Lower(credential.service_name[1]), query_lower)
                 \/ Contains(Lower(credential.username[1]), query_lower)
                 \/ (Truthy(credential.notes)
                     /\ Contains(Lower(credential.notes[1]), query_lower))
        ELSE TRUE
      tags_ok ==
        IF Truthy(tags) /\ text_ok
        THEN \E i \in 1..Len(tags[1]) : InList(credential.tags[1], tags[1][i])
        ELSE TRUE
  IN  text_ok /\ tags_ok

FilterMatches(seq, query, tags) ==
  LET F[i \in 0..Len(seq)] ==
        IF i = 0 THEN <<>>
        ELSE IF Matches(seq[i], query, tags) THEN Append(F[i - 1], seq[i])
        ELSE F[i - 1]
  IN  F[Len(seq)]

search_credentials(query, tags) ==
  /\ IF ~is_session_valid
     THEN Denied("search_credentials", <<query, tags>>, <<>>)
     ELSE LET results == FilterMatches(_load_credentials, query, tags)
          IN  /\ last_activity' = ActivityAfterLoad
              /\ Logged("SEARCH_CREDENTIALS", None,
                        [query |-> query, tags |-> tags, results_count |-> Len(results)])
              /\ ret' = [op |-> "search_credentials", arg |-> <<query, tags>>,
                         val |-> results]
              /\ UNCHANGED <<now, file, session_key, failed_attempts, lockout_until,
                             audit_on, held, inflight, issued>>

(***************************************************************************)
(* SharingTokenCodec                                                       *)
(***************************************************************************)
\* json.dumps(obj).encode() and the bytes that are no JSON text
JsonDumps(obj) == [json |-> TRUE, obj |-> obj]
NotJson == [json |-> FALSE, obj |-> [garbage |-> TRUE]]

\* base64.b64encode(data).decode() and a string that is no base64 text
B64Encode(data) == [b64 |-> TRUE, data |-> data]
NotBase64(data) == [b64 |-> FALSE, data |-> data]

\* the keys Fernet(key) accepts: 32 url-safe base64-encoded bytes
FernetKeys == {"temp-key-1", "temp-key-2"}

\* SecurityManager.generate_sharing_token
SharingToken(credential_data, expires_in, temp_key, token_id) ==
  LET token_data == [credential |-> credential_data,
                     expires_at |-> now + expires_in,
                     token_id |-> token_id]
      encrypted_token == FernetEncrypt(temp_key, JsonDumps(token_data))
      sharing_data == [key |-> B64Encode(temp_key),
                       token |-> B64Encode(encrypted_token)]
  IN  B64Encode(JsonDumps(sharing_data))

\* an exception raised inside the try block, and a value returned from it
Raised == [raised |-> TRUE, val |-> None]
Returned(val) == [raised |-> FALSE, val |-> val]

\* mutant: the expiry instant itself already counts as expired
TokenExpired_Inclusive(token_data) == now >= token_data.expires_at

\* time.time() > token_data['expires_at']
TokenExpired(token_data) == now > token_data.expires_at

\* the try block of SecurityManager.decrypt_sharing_token
TryDecryptSharingToken(token) ==
  IF ~token.b64 THEN Raised                       \* binascii.Error
  ELSE IF ~token.data.json THEN Raised            \* JSONDecodeError
  ELSE LET sharing_data == token.data.obj
       IN  IF "key" \notin DOMAIN sharing_data THEN Raised        \* KeyError
           ELSE IF ~sharing_data.key.b64 THEN Raised
           ELSE IF "token" \notin DOMAIN sharing_data THEN Raised \* KeyError
           ELSE IF ~sharing_data.token.b64 THEN Raised
           ELSE LET temp_key == sharing_data.key.data
                    encrypted_token == sharing_data.token.data
                IN  IF temp_key \notin FernetKeys THEN Raised     \* ValueError
                    ELSE IF ~FernetCanDecrypt(temp_key, encrypted_token)
                         THEN Raised                              \* InvalidToken
                    ELSE IF ~FernetDecrypt(temp_key, encrypted_token).json
                         THEN Raised                              \* JSONDecodeError
                    ELSE LET token_data == FernetDecrypt(temp_key, encrypted_token).obj
                         IN  IF "expires_at" \notin DOMAIN token_data
                             THEN Raised                          \* KeyError
                             ELSE IF TokenExpired(token_data)
                                  THEN Returned(None)
                             ELSE IF "credential" \notin DOMAIN token_data
                                  THEN Raised                     \* KeyError
                             ELSE Returned(Some(token_data.credential))

\* mutant: the handler has no except clause
Caught_Propagates(outcome) == outcome

\* except Exception: return None
Caught(outcome) == IF outcome.raised THEN Returned(None) ELSE outcome

\* mutant: redeeming asks for a valid session first
decrypt_sharing_token_NeedsSession(token) ==
  IF ~is_session_valid
  THEN /\ session_key' = KeyAfterCheck
       /\ ret' = [op |-> "decrypt_sharing_token", arg |-> token, val |-> None,
                  raised |-> FALSE]
       /\ UNCHANGED <<now, file, last_activity, failed_attempts, lockout_until,
                      audit_logs, audit_on, issued, held, inflight>>
  ELSE /\ ret' = [op |-> "decrypt_sharing_token", arg |-> token,
                  val |-> Caught(TryDecryptSharingToken(token)).val,
                  raised |-> Caught(TryDecryptSharingToken(token)).raised]
       /\ UNCHANGED <<now, file, session_key, last_activity, failed_attempts,
                      lockout_until, audit_logs, audit_on, issued, held, inflight>>

\* SecurityManager.decrypt_sharing_token / CredentialVault.decrypt_sharing_token
decrypt_sharing_token(token) ==
  LET outcome == Caught(TryDecryptSharingToken(token))
  IN  /\ ret' = [op |-> "decrypt_sharing_token", arg |-> token,
                 val |-> outcome.val, raised |-> outcome.raised]
      /\ UNCHANGED <<now, file, session_key, last_activity, failed_attempts,
                     lockout_until, audit_logs, audit_on, issued, held, inflight>>

\* the caller hands the token it was returned to a recipient, who keeps it
\* with what it was issued for
receive_token ==
  /\ ret.op = "generate_sharing_token"
  /\ ret.val # None
  /\ LET credential == DictGet(file.credentials.data, ret.arg[1])[1]
     IN  held' = held \cup
           {[token |-> ret.val[1], issued_at |-> now, expires_in |-> ret.arg[2],
             share |-> [service_name |-> credential.service_name,
                        username |-> credential.username,
                        password |-> credential.password,
                        notes |-> credential.notes]]}
  /\ ret' = [op |-> "receive_token"]
  /\ UNCHANGED <<now, file, session_key, last_activity, failed_attempts,
                 lockout_until, audit_logs, audit_on, issued, inflight>>

\* CredentialVault.generate_sharing_token (it calls get_credential, which logs)
generate_sharing_token(credential_id, expires_in, temp_key, token_id) ==
  /\ IF ~is_session_valid
     THEN Denied("generate_sharing_token", <<credential_id, expires_in>>, None)
     ELSE LET credential == DictGet(_load_credentials, credential_id)
          IN  /\ last_activity' = ActivityAfterLoad
              /\ IF credential = None
                 THEN /\ ret' = [op |-> "generate_sharing_token",
                                 arg |-> <<credential_id, expires_in>>, val |-> None]
                      /\ UNCHANGED audit_logs
                 ELSE LET share_data == [service_name |-> credential[1].service_name,
                                         username |-> credential[1].username,
                                         password |-> credential[1].password,
                                         notes |-> credential[1].notes]
                          viewed == IF audit_on
                                    THEN LogAction(audit_logs, "VIEW_CREDENTIAL",
                                                   Some(credential_id),
                                                   [service_name |-> credential[1].service_name])
                                    ELSE audit_logs
                      IN  /\ audit_logs' =
                               IF audit_on
                               THEN LogAction(viewed, "GENERATE_SHARE_TOKEN",
                                              Some(credential_id),
                                              [service_name |-> credential[1].service_name,
                                               expires_in |-> expires_in])
                               ELSE audit_logs
                          /\ ret' = [op |-> "generate_sharing_token",
                                     arg |-> <<credential_id, expires_in>>,
                                     val |-> Some(SharingToken(share_data, expires_in,
                                                               temp_key, token_id))]
              /\ UNCHANGED <<now, file, session_key, failed_attempts, lockout_until,
                             audit_on, held, inflight, issued>>

(***************************************************************************)
(* ExportCodec                                                             *)
(***************************************************************************)
export_vault(export_password, salt) ==
  /\ IF ~is_session_valid
     THEN Denied("export_vault", export_password, None)
     ELSE LET credentials == _load_credentials
              export_data == [credentials |-> credentials,
                              exported_at |-> now,
                              version |-> "1.0"]
              key == derive_key(export_password, salt)
              encrypted_export == FernetEncrypt(key, JsonDumps(export_data))
              export_package == [salt |-> B64Encode(salt),
                                 data |-> B64Encode(encrypted_export)]
          IN  /\ last_activity' = ActivityAfterLoad
              /\ Logged("EXPORT_VAULT", None, [credentials_count |-> Len(credentials)])
              /\ ret' = [op |-> "export_vault", arg |-> export_password,
                         val |-> Some(B64Encode(JsonDumps(export_package)))]
              /\ UNCHANGED <<now, file, session_key, failed_attempts, lockout_until,
                             audit_on, held, inflight, issued>>

(***************************************************************************)
(* AuditTrail: reading the log                                             *)
(***************************************************************************)
\* Python's seq[start:]
SliceFrom(seq, start) ==
  LET first == IF start < 0
               THEN (IF Len(seq) + start < 0 THEN 0 ELSE Len(seq) + start)
               ELSE (IF start > Len(seq) THEN Len(seq) ELSE start)
  IN  SubSeq(seq, first + 1, Len(seq))

\* CredentialVault.get_audit_logs: self.audit_logs[-limit:]
get_audit_logs(limit) ==
  IF ~is_session_valid
  THEN Denied("get_audit_logs", limit, <<>>)
  ELSE /\ ret' = [op |-> "get_audit_logs", arg |-> limit,
                  val |-> SliceFrom(audit_logs, 0 - limit)]
       /\ UNCHANGED <<now, file, session_key, last_activity, failed_attempts,
                      lockout_until, audit_logs, audit_on, issued, held, inflight>>

(***************************************************************************)
(* Statistics                                                              *)
(***************************************************************************)
\* os.path.getsize(vault_path), counted in stored units
FileSize == IF Parses(file) THEN 1 + Len(file.credentials.data) ELSE 0

get_vault_stats ==
  IF ~is_session_valid
  THEN Denied("get_vault_stats", None, None)
  ELSE LET credentials == _load_credentials
           metadata == load_vault_metadata
       IN  /\ last_activity' = ActivityAfterLoad
           /\ ret' = [op |-> "get_vault_stats", arg |-> None,
                      val |-> IF metadata = None THEN None
                              ELSE Some([total_credentials |-> Len(credentials),
                                         created_at |-> metadata[1].created_at,
                                         last_accessed |-> ActivityAfterLoad,
                                         vault_size |-> FileSize])]
           /\ UNCHANGED <<now, file, session_key, failed_attempts, lockout_until,
                          audit_logs, audit_on, held, inflight, issued>>

(***************************************************************************)
(* Concurrent callers: a mutation is a read step and a write step          *)
(***************************************************************************)
\* add_credential up to the call of _save_credentials: the session check,
\* _load_credentials and the new entry put into the loaded map
begin_add(caller, credential_data, credential_id) ==
  /\ inflight[caller] = None
  /\ is_session_valid
  /\ credential_id \notin issued
  /\ issued' = issued \cup {credential_id}
  /\ inflight' = [inflight EXCEPT ![caller] =
                    Some([op |-> "add_credential", id |-> credential_id,
                          credentials |-> DictSet(_load_credentials,
                                                  NewCredential(credential_id,
                                                                credential_data, 0))])]
  /\ last_activity' = ActivityAfterLoad
  /\ ret' = [op |-> "begin", caller |-> caller]
  /\ UNCHANGED <<now, file, session_key, failed_attempts, lockout_until,
                 audit_logs, audit_on, held>>

\* delete_credential up to the call of _save_credentials
begin_delete(caller, credential_id) ==
  /\ inflight[caller] = None
  /\ is_session_valid
  /\ HasId(_load_credentials, credential_id)
  /\ inflight' = [inflight EXCEPT ![caller] =
                    Some([op |-> "delete_credential", id |-> credential_id,
                          credentials |-> DictDel(_load_credentials, credential_id)])]
  /\ last_activity' = ActivityAfterLoad
  /\ ret' = [op |-> "begin", caller |-> caller]
  /\ UNCHANGED <<now, file, session_key, failed_attempts, lockout_until,
                 audit_logs, audit_on, issued, held>>

\* _save_credentials(credentials) and the return of the handler
finish_mutation(caller) ==
  /\ inflight[caller] # None
  /\ inflight' = [inflight EXCEPT ![caller] = None]
  /\ session_key' = KeyAfterCheck
  /\ IF SaveOk
     THEN /\ file' = SavedFile(inflight[caller][1].credentials)
          /\ last_activity' = now
          /\ ret' = [op |-> inflight[caller][1].op, arg |-> inflight[caller][1].id,
                     val |-> TRUE, caller |-> caller]
     ELSE /\ ret' = [op |-> inflight[caller][1].op, arg |-> inflight[caller][1].id,
                     val |-> FALSE, caller |-> caller]
          /\ UNCHANGED <<file, last_activity>>
  /\ UNCHANGED <<now, failed_attempts, lockout_until, audit_logs, audit_on,
                 issued, held>>

(***************************************************************************)
(* Process and disk: restart, crash during a write, tampering              *)
(***************************************************************************)
\* a new CredentialVault object is opened on the same file
restart ==
  /\ session_key' = None
  /\ last_activity' = now
  /\ failed_attempts' = 0
  /\ lockout_until' = 0
  /\ audit_logs' = <<>>
  /\ inflight' = NoInflight
  /\ ret' = [op |-> "restart"]
  /\ UNCHANGED <<now, file, audit_on, issued, held>>

\* what a crash between open(vault_path, 'w') and the end of json.dump leaves:
\* the file as it was if open was not reached, else the emptied file
CrashedFile(reached_open) == IF reached_open THEN TruncatedFile ELSE file

\* the process dies inside the write of create_vault or of _save_credentials
\* (a write is under way: create_vault always writes, _save_credentials
\* writes when SaveOk), and a new process is started
crash_in_write(in_create, reached_open) ==
  /\ in_create \/ SaveOk
  /\ file' = CrashedFile(reached_open)
  /\ session_key' = None
  /\ last_activity' = now
  /\ failed_attempts' = 0
  /\ lockout_until' = 0
  /\ audit_logs' = <<>>
  /\ inflight' = NoInflight
  /\ ret' = [op |-> "crash", in_create |-> in_create]
  /\ UNCHANGED <<now, audit_on, issued, held>>

\* the encrypted blob of the file is altered outside the program
tamper_file ==
  /\ Parses(file)
  /\ file.credentials.key # NoKey
  /\ file' = [file EXCEPT !.credentials.key = NoKey]
  /\ ret' = [op |-> "tamper"]
  /\ UNCHANGED <<now, session_key, last_activity, failed_attempts, lockout_until,
                 audit_logs, audit_on, issued, held, inflight>>

(***************************************************************************)
(* Specifications                                                          *)
(***************************************************************************)
InitCommon ==
  /\ now = StartTime
  /\ file = NoFile
  /\ session_key = None
  /\ last_activity = now
  /\ failed_attempts = 0
  /\ lockout_until = 0
  /\ audit_logs = <<>>
  /\ issued = {}
  /\ held = {}
  /\ inflight = NoInflight
  /\ ret = [op |-> "init"]

\* inputs shared by the specifications
ExportPasswords == {"export-P2"}
TimeToLive == {TickLen}
TempKeys == {"temp-key-1"}
TokenIds == {"token-id-1"}
NoElapse == {0}      \* the clock does not move while a handler runs
MayElapse == {0, 1}  \* or it moves between two reads of one handler

CredExample ==
  [service_name |-> Some(<<"E", "x">>), username |-> Some(<<"a", "l">>),
   password |-> Some(<<"p", "@">>), notes |-> None, tags |-> Some(<<>>)]

CredMail ==
  [service_name |-> Some(<<"M", "a">>), username |-> Some(<<"B", "o">>),
   password |-> Some(<<"h", "2">>), notes |-> Some(<<"W", "x">>),
   tags |-> Some(<< <<"w">> >>)]

(* Spec: authentication, lockout and session over a long clock, with one   *)
(* credential slot.                                                        *)
Ids == {"id-1"}
NewCredentials == {CredExample}
Updates == { [notes |-> Some(<<"x">>)] }
Queries == { Some(<<"e", "X">>) }
TagFilters == { None }

Init == InitCommon /\ audit_on = FALSE

Next ==
  \/ (now + TickLen <= EndTime /\ Tick)
  \/ \E p \in Passwords, s \in Salts : create_vault(p, s)
  \/ \E p \in Passwords : authenticate(p)
  \/ is_authenticated
  \/ logout
  \/ \E c \in NewCredentials, id \in Ids, e \in NoElapse : add_credential(c, id, e)
  \/ \E id \in Ids : get_credential(id)
  \/ get_all_credentials
  \/ \E id \in Ids, u \in Updates : update_credential(id, u)
  \/ \E id \in Ids : delete_credential(id)
  \/ \E q \in Queries, t \in TagFilters : search_credentials(q, t)
  \/ \E id \in Ids, ttl \in TimeToLive, k \in TempKeys, n \in TokenIds :
       generate_sharing_token(id, ttl, k, n)
  \/ \E p \in ExportPasswords, s \in Salts : export_vault(p, s)
  \/ get_vault_stats

Spec == Init /\ [][Next]_vars

(* SpecLive: the authentication handlers under a clock that keeps moving.  *)
NextLive ==
  \/ (now + TickLen <= EndTime /\ Tick)
  \/ \E p \in Passwords, s \in Salts : create_vault(p, s)
  \/ \E p \in Passwords : authenticate(p)
  \/ is_authenticated
  \/ logout

SpecLive == Init /\ [][NextLive]_vars /\ WF_vars(now + TickLen <= EndTime /\ Tick)

(* SpecVault: the credential store with one master password, two id slots  *)
(* and a short clock.                                                      *)
VaultPasswords == {"master-A"}
VaultIds == {"id-1", "id-2"}
VaultNewCredentials == {CredExample, CredMail}
VaultUpdates ==
  { [notes |-> Some(<<"x">>)],
    [password |-> Some(<<"n", "3">>), tags |-> Some(<< <<"w">>, <<"W">> >>)],
    [service_name |-> None] }
VaultQueries == { None, Some(<<"e", "X">>) }
VaultTagFilters == { None, Some(<< <<"w">> >>) }

NextVault ==
  \/ (now + TickLen <= VaultEndTime /\ Tick)
  \/ \E p \in VaultPasswords, s \in Salts : create_vault(p, s)
  \/ \E p \in VaultPasswords : authenticate(p)
  \/ is_authenticated
  \/ logout
  \/ \E c \in VaultNewCredentials, id \in VaultIds, e \in NoElapse :
       add_credential(c, id, e)
  \/ \E id \in VaultIds : get_credential(id)
  \/ get_all_credentials
  \/ \E id \in VaultIds, u \in VaultUpdates : update_credential(id, u)
  \/ \E id \in VaultIds : delete_credential(id)
  \/ \E q \in VaultQueries, t \in VaultTagFilters : search_credentials(q, t)
  \/ \E id \in VaultIds, ttl \in TimeToLive, k \in TempKeys, n \in TokenIds :
       generate_sharing_token(id, ttl, k, n)
  \/ \E p \in ExportPasswords, s \in Salts : export_vault(p, s)
  \/ get_vault_stats

SpecVault == Init /\ [][NextVault]_vars

(* SpecStamp: the timestamps of a record; the clock may move while add     *)
(* fills them.                                                             *)
NextStamp ==
  \/ (now + TickLen <= VaultEndTime /\ Tick)
  \/ \E p \in VaultPasswords, s \in Salts : create_vault(p, s)
  \/ \E p \in VaultPasswords : authenticate(p)
  \/ \E c \in VaultNewCredentials, id \in VaultIds, e \in MayElapse :
       add_credential(c, id, e)
  \/ \E id \in VaultIds : get_credential(id)
  \/ \E id \in VaultIds, u \in VaultUpdates : update_credential(id, u)
  \/ \E id \in VaultIds : delete_credential(id)

SpecStamp == Init /\ [][NextStamp]_vars

(* SpecShare: sharing tokens are issued, handed over and redeemed, next to *)
(* strings that were never issued.                                         *)
ShareCredentials == {CredMail}
ShareTimeToLive == {0, TickLen}

ShareExample ==
  [service_name |-> CredExample.service_name, username |-> CredExample.username,
   password |-> CredExample.password, notes |-> CredExample.notes]

NeverExpires == ShareEndTime + TickLen

\* the ciphertext of a well-formed payload under temp-key-1
ForgedCiphertext ==
  FernetEncrypt("temp-key-1",
                JsonDumps([credential |-> ShareExample, expires_at |-> NeverExpires,
                           token_id |-> "token-id-2"]))

\* a decryptable, unexpired payload that has no credential entry
TokenWithoutCredential ==
  B64Encode(JsonDumps(
    [key |-> B64Encode("temp-key-1"),
     token |-> B64Encode(FernetEncrypt("temp-key-1",
                 JsonDumps([expires_at |-> NeverExpires,
                            token_id |-> "token-id-2"])))]))

\* strings that generate_sharing_token never returned
MalformedTokens ==
  { NotBase64(NotJson),
    B64Encode(NotJson),
    B64Encode(JsonDumps([token |-> B64Encode(ForgedCiphertext)])),
    B64Encode(JsonDumps([key |-> B64Encode("temp-key-1")])),
    B64Encode(JsonDumps([key |-> NotBase64("temp-key-1"),
                         token |-> B64Encode(ForgedCiphertext)])),
    B64Encode(JsonDumps([key |-> B64Encode("short-key"),
                         token |-> B64Encode(ForgedCiphertext)])),
    B64Encode(JsonDumps([key |-> B64Encode("temp-key-2"),
                         token |-> B64Encode(ForgedCiphertext)])),
    B64Encode(JsonDumps([key |-> B64Encode("temp-key-1"),
                         token |-> B64Encode([key |-> "corrupted",
                                              data |-> NotJson])])),
    B64Encode(JsonDumps([key |-> B64Encode("temp-key-1"),
                         token |-> B64Encode(FernetEncrypt("temp-key-1", NotJson))])),
    B64Encode(JsonDumps(
      [key |-> B64Encode("temp-key-1"),
       token |-> B64Encode(FernetEncrypt("temp-key-1",
                   JsonDumps([credential |-> ShareExample,
                              token_id |-> "token-id-2"])))])),
    TokenWithoutCredential }

NextShare ==
  \/ (now + TickLen <= ShareEndTime /\ Tick)
  \/ \E p \in VaultPasswords, s \in Salts : create_vault(p, s)
  \/ \E p \in VaultPasswords : authenticate(p)
  \/ logout
  \/ \E c \in ShareCredentials, id \in Ids, e \in NoElapse : add_credential(c, id, e)
  \/ \E id \in Ids, u \in Updates : update_credential(id, u)
  \/ \E id \in Ids : delete_credential(id)
  \/ \E id \in Ids, ttl \in ShareTimeToLive, k \in TempKeys, n \in TokenIds :
       generate_sharing_token(id, ttl, k, n)
  \/ (Cardinality(held) < MaxHeld /\ receive_token)
  \/ \E t \in {h.token : h \in held} \cup MalformedTokens : decrypt_sharing_token(t)

SpecShare == Init /\ [][NextShare]_vars

(* SpecForge: next to the issued tokens, a token is redeemed that a party  *)
(* without a session built from a key and a payload of its own.            *)
ForgedToken ==
  B64Encode(JsonDumps(
    [key |-> B64Encode("temp-key-2"),
     token |-> B64Encode(FernetEncrypt("temp-key-2",
                 JsonDumps([credential |-> ShareExample,
                            expires_at |-> NeverExpires,
                            token_id |-> "token-id-2"])))]))

NextForge ==
  \/ NextShare
  \/ decrypt_sharing_token(ForgedToken)

SpecForge == Init /\ [][NextForge]_vars

(* SpecRedeem: tokens are redeemed while the vault is logged in, logged    *)
(* out, idle past its timeout or locked out, and after the shared record   *)
(* was changed or deleted.                                                 *)
RedeemTimeToLive == {TickLen, MaxRedeemTicks * TickLen}

NextRedeem ==
  \/ (now + TickLen <= RedeemEndTime /\ Tick)
  \/ (~file.exists /\ \E p \in VaultPasswords, s \in Salts : create_vault(p, s))
  \/ \E p \in Passwords : authenticate(p)
  \/ logout
  \/ \E c \in ShareCredentials, id \in Ids, e \in NoElapse : add_credential(c, id, e)
  \/ \E id \in Ids, u \in Updates : update_credential(id, u)
  \/ \E id \in Ids : delete_credential(id)
  \/ \E id \in Ids, ttl \in RedeemTimeToLive, k \in TempKeys, n \in TokenIds :
       generate_sharing_token(id, ttl, k, n)
  \/ (Cardinality(held) < MaxHeld /\ receive_token)
  \/ \E t \in {h.token : h \in held} \cup {TokenWithoutCredential} :
       decrypt_sharing_token(t)

SpecRedeem == Init /\ [][NextRedeem]_vars

(* SpecAudit: the audit log is tracked while the handlers that write it    *)
(* and the one that reads it run, up to MaxLog entries.                    *)
InitAudit == InitCommon /\ audit_on = TRUE

Limits == {0, 1, 3}

AuditUpdates == Updates \cup { [password |-> Some(<<"n", "3">>)] }

LogRoom == Len(audit_logs) < MaxLog

NextAudit ==
  \/ \E p \in VaultPasswords, s \in Salts : create_vault(p, s)
  \/ (LogRoom /\ \E p \in VaultPasswords : authenticate(p))
  \/ (LogRoom /\ logout)
  \/ (LogRoom /\ \E c \in NewCredentials, id \in Ids, e \in NoElapse :
                    add_credential(c, id, e))
  \/ (LogRoom /\ \E id \in Ids : get_credential(id))
  \/ (LogRoom /\ \E id \in Ids, u \in AuditUpdates : update_credential(id, u))
  \/ (LogRoom /\ \E id \in Ids : delete_credential(id))
  \/ (LogRoom /\ \E q \in Queries, t \in TagFilters : search_credentials(q, t))
  \/ \E n \in Limits : get_audit_logs(n)
  \/ (LogRoom /\ get_all_credentials)
  \/ (LogRoom /\ \E id \in Ids, ttl \in TimeToLive, k \in TempKeys, n \in TokenIds :
                    generate_sharing_token(id, ttl, k, n))
  \/ (LogRoom /\ \E p \in ExportPasswords, s \in Salts : export_vault(p, s))
  \/ get_vault_stats

SpecAudit == InitAudit /\ [][NextAudit]_vars

(* SpecIdle: the handlers of SpecAudit under a clock that moves, so that a *)
(* call can come some time after the last activity.                        *)
NextIdle ==
  \/ (now + TickLen <= IdleEndTime /\ Tick)
  \/ NextAudit

SpecIdle == InitAudit /\ [][NextIdle]_vars

(* SpecDisk: the store next to a file that is tampered with and a process  *)
(* that dies inside a write.                                               *)
NextDisk ==
  \/ \E p \in VaultPasswords, s \in Salts : create_vault(p, s)
  \/ \E p \in VaultPasswords : authenticate(p)
  \/ \E c \in VaultNewCredentials, id \in VaultIds, e \in NoElapse :
       add_credential(c, id, e)
  \/ \E id \in VaultIds : get_credential(id)
  \/ get_all_credentials
  \/ \E id \in VaultIds : delete_credential(id)
  \/ \E q \in VaultQueries, t \in VaultTagFilters : search_credentials(q, t)
  \/ tamper_file
  \/ \E c \in BOOLEAN, o \in BOOLEAN : crash_in_write(c, o)

SpecDisk == Init /\ [][NextDisk]_vars

(* SpecRestart: the process is stopped and started again on the same file, *)
(* with the audit log tracked and wrong passwords entered.                 *)
RestartUpdates == Updates \cup { [service_name |-> None] }

NextRestart ==
  \/ (~file.exists /\ \E p \in VaultPasswords, s \in Salts : create_vault(p, s))
  \/ (LogRoom /\ \E p \in Passwords : authenticate(p))
  \/ (LogRoom /\ \E c \in NewCredentials, id \in VaultIds, e \in NoElapse :
                    add_credential(c, id, e))
  \/ (LogRoom /\ \E id \in VaultIds, u \in RestartUpdates : update_credential(id, u))
  \/ (LogRoom /\ \E id \in VaultIds : delete_credential(id))
  \/ (LogRoom /\ get_all_credentials)
  \/ restart

SpecRestart == InitAudit /\ [][NextRestart]_vars

(* SpecPoll: a session is polled, the audit log is read and tokens are     *)
(* redeemed while the clock runs past the idle timeout.                    *)
PollTimeToLive == {MaxPollTicks * TickLen}

NextPoll ==
  \/ (now + TickLen <= PollEndTime /\ Tick)
  \/ (~file.exists /\ \E p \in VaultPasswords, s \in Salts : create_vault(p, s))
  \/ \E p \in Passwords : authenticate(p)
  \/ is_authenticated
  \/ poll_locked_out
  \/ logout
  \/ \E c \in ShareCredentials, id \in Ids, e \in NoElapse : add_credential(c, id, e)
  \/ \E id \in Ids : get_credential(id)
  \/ \E id \in Ids, ttl \in PollTimeToLive, k \in TempKeys, n \in TokenIds :
       generate_sharing_token(id, ttl, k, n)
  \/ (Cardinality(held) < MaxHeld /\ receive_token)
  \/ \E t \in {h.token : h \in held} : decrypt_sharing_token(t)
  \/ \E n \in Limits : get_audit_logs(n)

SpecPoll == Init /\ [][NextPoll]_vars

(* SpecRace: two callers whose mutations read and write in separate steps. *)
NextRace ==
  \/ (~file.exists /\ \E p \in VaultPasswords, s \in Salts : create_vault(p, s))
  \/ \E p \in VaultPasswords : authenticate(p)
  \/ \E t \in Callers, c \in NewCredentials, id \in VaultIds : begin_add(t, c, id)
  \/ \E t \in Callers, id \in VaultIds : begin_delete(t, id)
  \/ \E t \in Callers : finish_mutation(t)
  \/ get_all_credentials

SpecRace == Init /\ [][NextRace]_vars

(* SpecCap: the audit log is tracked and filled past its capacity, by one  *)
(* login attempt per clock step on a location that holds no vault.         *)
NextCap ==
  \/ (ret.op # "tick" /\ now + TickLen <= CapEndTime /\ Tick)
  \/ (ret.op = "tick" /\ \E p \in VaultPasswords : authenticate(p))

SpecCap == InitAudit /\ [][NextCap]_vars

(***************************************************************************)
(* Claims                                                                  *)
(*                                                                         *)
(* The formulas read the raw state (now, lockout_until, session_key, ...)  *)
(* and the record ret of the last call; a step whose ret' names a handler  *)
(* is a step of that handler.                                              *)
(***************************************************************************)
HasSession == session_key # None /\ now - last_activity <= session_timeout

CorrectPassword(p) == file.exists /\ file.metadata.master_hash.password = p

\* C1: on a location holding no vault, create_vault(P) directly followed by
\* authenticate(P) returns success and leaves a valid session.
C1_CreateThenAuthenticate ==
  [][ ( /\ ret.op = "create_vault" /\ ~ret.existed /\ ret.val
        /\ ret'.op = "authenticate" /\ ret'.arg = ret.arg )
      => ( /\ ret'.val = TRUE
           /\ session_key' # None
           /\ now' - last_activity' <= session_timeout ) ]_vars

C1_Witness ==
  /\ ret.op = "authenticate" /\ ret.val = TRUE
  /\ file.exists /\ file.metadata.created_at = now
  /\ HasSession /\ last_activity = now /\ failed_attempts = 0

\* C2: every wrong-password authenticate that is not rejected by the lockout
\* is counted; the counted failure that brings the count to max_attempts (or
\* beyond) locks the vault for lockout_duration from that failure; and while
\* locked, authenticate with the correct password returns failure and leaves
\* the session key as it was.
C2_LockoutBlocksCorrectPassword ==
  [][ ret'.op = "authenticate" =>
      LET counted == now >= lockout_until /\ file.exists /\ ~CorrectPassword(ret'.arg)
      IN  /\ counted => failed_attempts' = failed_attempts + 1
          /\ (counted /\ failed_attempts + 1 >= max_attempts)
               => (lockout_until' = now + lockout_duration /\ now' < lockout_until')
          /\ (now < lockout_until /\ CorrectPassword(ret'.arg))
               => (ret'.val = FALSE /\ session_key' = session_key) ]_vars

C2_Witness ==
  /\ ret.op = "authenticate" /\ ret.val = FALSE
  /\ CorrectPassword(ret.arg)
  /\ failed_attempts = max_attempts
  /\ now < lockout_until /\ now > lockout_until - lockout_duration
  /\ session_key = None

\* C3: a lockout always ends: authenticate during the lockout never moves
\* lockout_until; once the clock has reached lockout_until is_locked_out() is
\* false and authenticate with the correct password succeeds; and under a
\* clock that keeps moving every locked state is followed by an open one.
C3_LockoutEnds ==
  /\ [][ ret'.op = "authenticate" =>
         /\ (now < lockout_until => lockout_until' = lockout_until)
         /\ (now >= lockout_until /\ CorrectPassword(ret'.arg)) => ret'.val = TRUE ]_vars
  /\ [](now >= lockout_until => ~is_locked_out)
  /\ ((now < lockout_until /\ lockout_until <= EndTime) ~> (now >= lockout_until))

C3_Witness ==
  /\ failed_attempts >= max_attempts
  /\ lockout_until # 0 /\ now = lockout_until
  /\ ~is_locked_out
  /\ ret.op = "tick"

\* C4: while the vault is locked out, authenticate with any password returns
\* failure without loading the vault metadata, and leaves failed_attempts,
\* lockout_until, session_key and last_activity unchanged.
C4_LockedAuthenticateIsInert ==
  [][ (ret'.op = "authenticate" /\ now < lockout_until)
      => ( /\ ret'.val = FALSE
           /\ ret'.consulted = FALSE
           /\ UNCHANGED <<failed_attempts, lockout_until, session_key,
                          last_activity>> ) ]_vars

C4_Witness ==
  /\ ret.op = "authenticate" /\ ret.val = FALSE /\ ret.consulted = FALSE
  /\ ~CorrectPassword(ret.arg) /\ file.exists
  /\ now < lockout_until
  /\ session_key # None

\* C5: a successful authenticate sets failed_attempts and lockout_until to 0,
\* and a vault with fewer than max_attempts counted failures is never locked.
C5_SuccessResetsCounter ==
  [][ /\ (ret'.op = "authenticate" /\ ret'.val = TRUE)
           => (failed_attempts' = 0 /\ lockout_until' = 0)
      /\ failed_attempts' < max_attempts => ~(now' < lockout_until') ]_vars

C5_Witness ==
  /\ ret.op = "authenticate" /\ ret.val = FALSE
  /\ failed_attempts = max_attempts - 1
  /\ session_key # None
  /\ ~(now < lockout_until)

\* C6: is_session_valid() returns true iff a key is set and
\* now - last_activity <= session_timeout; when it returns false the key is
\* gone afterwards; and a missing key is only ever replaced by a successful
\* authenticate.
C6_SessionValidity ==
  [][ /\ ret'.op = "is_authenticated"
           => /\ ret'.val = (session_key # None
                             /\ now - last_activity <= session_timeout)
              /\ ret'.val = FALSE => session_key' = None
              /\ ret'.val = TRUE => session_key' = session_key
      /\ (session_key = None /\ session_key' # None)
           => (ret'.op = "authenticate" /\ ret'.val = TRUE) ]_vars

C6_Witness ==
  /\ ret.op = "is_authenticated" /\ ret.val = FALSE
  /\ session_key = None
  /\ last_activity > StartTime
  /\ now - last_activity > session_timeout

\* the value each handler returns when it finds no valid session
DenialValue(op) ==
  CASE op \in {"add_credential", "get_credential", "generate_sharing_token",
               "export_vault", "get_vault_stats"} -> None
    [] op \in {"update_credential", "delete_credential", "is_authenticated"} -> FALSE
    [] op \in {"get_all_credentials", "search_credentials"} -> <<>>

\* the handlers that start with an is_authenticated() check and read the store
SessionOps ==
  {"add_credential", "get_credential", "get_all_credentials", "update_credential",
   "delete_credential", "search_credentials", "generate_sharing_token",
   "export_vault"}

\* C7: logout discards the key at once; from then until the next successful
\* authenticate (last_activity = 0 all along) is_authenticated is false and
\* add, get, list, update, delete, search, export and generate_sharing_token
\* return their denial value.
C7_LogoutDeniesUntilLogin ==
  [][ /\ ret'.op = "logout" => (session_key' = None /\ last_activity' = 0)
      /\ (last_activity = 0 /\ ret'.op \in SessionOps \cup {"is_authenticated"})
           => (ret'.val = DenialValue(ret'.op) /\ session_key' = None)
      /\ (last_activity = 0 /\ last_activity' # 0)
           => (ret'.op = "authenticate" /\ ret'.val = TRUE) ]_vars

C7_Witness ==
  /\ ret.op = "get_credential" /\ ret.val = None
  /\ last_activity = 0 /\ session_key = None
  /\ file.exists /\ Len(file.credentials.data) > 0
  /\ file.credentials.data[1].id = ret.arg
  /\ file.credentials.data[1].updated_at = now

\* C8: with no valid session each of add, get, update, delete, search, export,
\* generate_sharing_token and stats returns its denial value and leaves the
\* vault file as it was.
C8_NoSessionDenied ==
  [][ ( /\ ~(session_key # None /\ now - last_activity <= session_timeout)
        /\ ret'.op \in (SessionOps \ {"get_all_credentials"}) \cup {"get_vault_stats"} )
      => (ret'.val = DenialValue(ret'.op) /\ file' = file) ]_vars

C8_Witness ==
  /\ ret.op = "delete_credential" /\ ret.val = FALSE
  /\ session_key = None
  /\ last_activity > StartTime /\ now - last_activity > session_timeout
  /\ file.exists /\ Len(file.credentials.data) > 0
  /\ file.credentials.data[1].id = ret.arg

\* C9: create on a location where a vault already exists returns failure and
\* leaves the existing vault file unchanged.
C9_CreateOnExistingFails ==
  [][ (ret'.op = "create_vault" /\ file.exists)
      => (ret'.val = FALSE /\ file' = file) ]_vars

\* C10: under a valid session add(r) returns an id, and a get of that id made
\* directly afterwards returns a record with r's service_name, username,
\* password, notes and tags.
C10_AddGetRoundTrip ==
  [][ /\ (ret'.op = "add_credential" /\ HasSession /\ file.exists)
           => ret'.val # None
      /\ ( /\ ret.op = "add_credential" /\ ret.val # None
           /\ ret'.op = "get_credential" /\ ret'.arg = ret.val[1] )
         => ( /\ ret'.val # None
              /\ ret'.val[1].id = ret.val[1]
              /\ ret'.val[1].service_name = ret.arg.service_name
              /\ ret'.val[1].username = ret.arg.username
              /\ ret'.val[1].password = ret.arg.password
              /\ ret'.val[1].notes = ret.arg.notes
              /\ ret'.val[1].tags = ret.arg.tags ) ]_vars

C10_Witness ==
  /\ ret.op = "get_credential" /\ ret.val # None
  /\ ret.val[1].created_at = now
  /\ ret.val[1].notes # None /\ ret.val[1].tags # Some(<<>>)
  /\ Len(file.credentials.data) = 2

\* the stored record with this id, read from the file as written
Stored(credential_id) ==
  IF Parses(file) THEN DictGet(file.credentials.data, credential_id) ELSE None

\* C11: the record a successful add stores has updated_at equal to created_at,
\* and both are the time of the add.
C11_AddTimestampsEqual ==
  [][ (ret'.op = "add_credential" /\ ret'.val # None)
      => LET r == DictGet(file'.credentials.data, ret'.val[1])[1]
         IN  /\ r.updated_at = r.created_at
             /\ r.created_at = now ]_vars

\* the fields of a record that update can set
UpdatableFields == {"service_name", "username", "password", "notes", "tags"}

\* C12: update(id, F) of a stored id under a valid session returns ok; the
\* record then stored under id has F's value in every field of F, the previous
\* value in every other updatable field, the same id and created_at, and an
\* updated_at not before created_at; and a get(id) made directly afterwards
\* returns that record.  (The claim has updated_at > created_at; two reads of
\* the model's clock may coincide, so the weaker >= is what is asked here: a
\* behaviour that violates this formula violates the claim.)
C12_UpdateThenGet ==
  [][ /\ (ret'.op = "update_credential" /\ HasSession /\ Stored(ret'.arg[1]) # None)
           => /\ ret'.val = TRUE
              /\ LET old == Stored(ret'.arg[1])[1]
                     new == DictGet(file'.credentials.data, ret'.arg[1])[1]
                     F == ret'.arg[2]
                 IN  /\ \A f \in DOMAIN F : new[f] = F[f]
                     /\ \A f \in UpdatableFields \ DOMAIN F : new[f] = old[f]
                     /\ new.id = old.id
                     /\ new.created_at = old.created_at
                     /\ new.updated_at >= new.created_at
      /\ ( /\ ret.op = "update_credential" /\ ret.val = TRUE
           /\ ret'.op = "get_credential" /\ ret'.arg = ret.arg[1] )
         => ( /\ ret'.val # None
              /\ ret'.val = Stored(ret.arg[1]) ) ]_vars

\* the ids of the records in the file as written
StoredIds(f) ==
  IF Parses(f) THEN {f.credentials.data[i].id : i \in 1..Len(f.credentials.data)}
  ELSE {}

\* C13: a successful delete(id) removes id from the store; an id that has been
\* issued and is no longer stored is never stored again; get of such an id
\* returns None, and no list or search result holds a record that is not
\* stored.
C13_DeletedNeverReappears ==
  [][ /\ (ret'.op = "delete_credential" /\ ret'.val = TRUE)
           => (ret'.arg \in StoredIds(file) /\ ret'.arg \notin StoredIds(file'))
      /\ \A id \in issued \ StoredIds(file) : id \notin StoredIds(file')
      /\ (ret'.op = "get_credential" /\ ret'.arg \notin StoredIds(file'))
           => ret'.val = None
      /\ ret'.op \in {"get_all_credentials", "search_credentials"}
           => \A i \in 1..Len(ret'.val) : ret'.val[i].id \in StoredIds(file') ]_vars

C13_Witness ==
  /\ ret.op = "get_credential" /\ ret.val = None
  /\ HasSession
  /\ issued = {"id-1", "id-2"}
  /\ ret.arg = "id-1"
  /\ StoredIds(file) = {"id-2"}
  /\ file.credentials.data[1].created_at < now

\* query is a case-insensitive substring of an Optional[str] field
FieldHas(field, query) ==
  field # None /\ Contains(Lower(field[1]), Lower(query))

\* the two filters of the claim, on a stored record
SatisfiesFilters(r, query, tags) ==
  /\ \/ query = None
     \/ FieldHas(r.service_name, query[1])
     \/ FieldHas(r.username, query[1])
     \/ FieldHas(r.notes, query[1])
  /\ \/ tags = None
     \/ /\ r.tags # None
        /\ \E i \in 1..Len(tags[1]), j \in 1..Len(r.tags[1]) : tags[1][i] = r.tags[1][j]

\* C14: under a valid session search(query, tags) returns exactly the stored
\* records that satisfy both filters, each once: the query is absent or a
\* case-insensitive substring of service_name, username or notes, and the tags
\* are absent or share a tag with the record.
C14_SearchExact ==
  [][ (ret'.op = "search_credentials" /\ HasSession /\ file.exists)
      => LET data == file.credentials.data
             hits == {i \in 1..Len(data) :
                        SatisfiesFilters(data[i], ret'.arg[1], ret'.arg[2])}
         IN  /\ {ret'.val[k] : k \in 1..Len(ret'.val)} = {data[i] : i \in hits}
             /\ Len(ret'.val) = Cardinality(hits) ]_vars

\* C15: a token issued at issued_at with time-to-live expires_in, redeemed at
\* time now, returns the service_name, username, password and notes it was
\* issued for if now <= issued_at + expires_in and None if now is later; the
\* clock never goes back, so a token rejected as expired stays rejected.
C15_TokenExpiry ==
  [][ /\ ret'.op = "decrypt_sharing_token"
           => \A h \in held :
                h.token = ret'.arg
                  => /\ now <= h.issued_at + h.expires_in => ret'.val = Some(h.share)
                     /\ now > h.issued_at + h.expires_in => ret'.val = None
      /\ now' >= now ]_vars

C15_Witness ==
  /\ ret.op = "decrypt_sharing_token" /\ ret.val # None
  /\ \E h \in held : /\ h.token = ret.arg
                      /\ h.expires_in > 0
                      /\ now = h.issued_at + h.expires_in
                      /\ ret.val[1].password = CredMail.password

\* C16: decrypt_sharing_token never lets an exception out: for every token,
\* issued or malformed (no base64, no JSON, key or token entry missing, wrong
\* or invalid key, corrupted ciphertext, payload without expires_at or
\* credential), it returns a payload or None, and None for the malformed ones.
C16_RedeemTotal ==
  [][ ret'.op = "decrypt_sharing_token"
      => /\ ret'.raised = FALSE
         /\ (ret'.val = None \/ Len(ret'.val) = 1)
         /\ ret'.arg \in MalformedTokens => ret'.val = None ]_vars

C16_Witness ==
  /\ ret.op = "decrypt_sharing_token"
  /\ ret.arg = TokenWithoutCredential
  /\ ret.val = None /\ ret.raised = FALSE
  /\ now < NeverExpires
  /\ held # {}

\* the inverse of export_vault: decode the package, derive the key from the
\* password and the package's own salt, decrypt and parse; None on failure
ImportDecrypt(package, password) ==
  LET export_package == package.data.obj
      key == derive_key(password, export_package.salt.data)
  IN  IF FernetCanDecrypt(key, export_package.data.data)
      THEN Some(FernetDecrypt(key, export_package.data.data).obj)
      ELSE None

\* passwords tried against an export package
TriedPasswords == Passwords \cup ExportPasswords \cup {"export-P3", ""}

\* C17: under a valid session export(P2) of a vault that stores at least one
\* record returns a package; decrypting it with the key derived from P2 and
\* the package's salt yields exactly the stored records, and decrypting it
\* with any other password fails.
C17_ExportRoundTrip ==
  [][ (ret'.op = "export_vault" /\ HasSession /\ StoredIds(file) # {})
      => /\ ret'.val # None
         /\ ImportDecrypt(ret'.val[1], ret'.arg) # None
         /\ ImportDecrypt(ret'.val[1], ret'.arg)[1].credentials = file.credentials.data
         /\ \A p \in TriedPasswords \ {ret'.arg} :
              ImportDecrypt(ret'.val[1], p) = None ]_vars

\* C18: the audit log never holds more than audit_capacity entries, and it
\* holds the newest ones in recording order: in SpecCap one entry is recorded
\* per clock step, so the log must end with the entry recorded last, its
\* timestamps must go up by one clock step from each entry to the next, and
\* its length must be the number of entries recorded so far or audit_capacity,
\* whichever is smaller.
C18_AuditLogBounded ==
  LET last == IF ret.op = "authenticate" THEN now
              ELSE IF ret.op = "tick" THEN now - TickLen
              ELSE StartTime
      recorded == (last - StartTime) \div TickLen
      size == Len(audit_logs)
  IN  /\ size <= audit_capacity
      /\ size = IF recorded > audit_capacity THEN audit_capacity ELSE recorded
      /\ size > 0 => audit_logs[size].timestamp = last
      /\ \A i \in 1..(size - 1) :
           audit_logs[i + 1].timestamp = audit_logs[i].timestamp + TickLen

C18_Witness ==
  /\ Len(audit_logs) = audit_capacity
  /\ audit_logs[1].timestamp = StartTime + 2 * TickLen
  /\ audit_logs[audit_capacity].timestamp = now
  /\ ret.op = "authenticate"

\* the handlers the claim C19 is about
RecordOps ==
  {"add_credential", "get_credential", "update_credential", "delete_credential",
   "search_credentials"}

\* C19: every call of add, get, update, delete or search, whatever it returns,
\* appends exactly one entry to the audit log and leaves the earlier entries
\* as they were.
C19_EveryCallLogged ==
  [][ ret'.op \in RecordOps
      => /\ Len(audit_logs') = Len(audit_logs) + 1
         /\ SubSeq(audit_logs', 1, Len(audit_logs)) = audit_logs ]_vars

\* C20: under a valid session get_audit_logs(n), n >= 0, returns the
\* min(n, size) entries recorded last, in recording order.
C20_RecentEntries ==
  [][ (ret'.op = "get_audit_logs" /\ HasSession /\ ret'.arg >= 0)
      => LET size == Len(audit_logs)
             k == IF ret'.arg < size THEN ret'.arg ELSE size
         IN  ret'.val = SubSeq(audit_logs, size - k + 1, size) ]_vars

\* what get, list and search return for a vault that holds no credentials
EmptyVaultResult(op) == IF op = "get_credential" THEN None ELSE <<>>

\* C21: under a valid session, when the stored blob does not decrypt under
\* the session key (tampered ciphertext, key mismatch), get, list and search
\* return something else than what they return for a vault with no
\* credentials.
C21_LoadFailureDistinct ==
  [][ ( /\ ret'.op \in {"get_credential", "get_all_credentials", "search_credentials"}
        /\ HasSession
        /\ Parses(file)
        /\ file.credentials.key # session_key[1] )
      => ret'.val # EmptyVaultResult(ret'.op) ]_vars

\* C22: mutations do not lose each other's changes: when an add completes
\* the store holds what it held just before plus the new id, and when a
\* delete completes it holds what it held just before minus the deleted id,
\* whatever other mutation ran between its read and its write.
C22_NoLostUpdate ==
  [][ /\ (ret'.op = "add_credential" /\ ret'.val = TRUE)
           => StoredIds(file') = StoredIds(file) \cup {ret'.arg}
      /\ (ret'.op = "delete_credential" /\ ret'.val = TRUE)
           => StoredIds(file') = StoredIds(file) \ {ret'.arg} ]_vars


(* C23: a process that dies inside a write (of create_vault or of           *)
(* _save_credentials) leaves the vault file either exactly as it was before *)
(* the write or as a complete, parseable vault file; it is never left empty *)
(* or cut short.                                                            *)
C23_CrashLeavesWholeFile ==
  [][ ret'.op = "crash" => (file' = file \/ Parses(file')) ]_vars


(* C24: every successful call of an operation that needs a session (add,    *)
(* get, list, update, delete, search, issue a sharing token, export, read   *)
(* the audit log, statistics) sets last_activity to the current time.       *)
ActivityOps ==
  {"add_credential", "get_credential", "get_all_credentials", "update_credential",
   "delete_credential", "search_credentials", "generate_sharing_token",
   "export_vault", "get_audit_logs", "get_vault_stats"}

\* the results a handler gives when it fails
FailureResults(op) ==
  IF op \in {"update_credential", "delete_credential"} THEN {FALSE}
  ELSE IF op \in {"get_all_credentials", "search_credentials", "get_audit_logs"}
       THEN {}
  ELSE {None}

C24_SuccessTouchesActivity ==
  [][ ( /\ ret'.op \in ActivityOps
        /\ HasSession
        /\ ret'.val \notin FailureResults(ret'.op) )
      => last_activity' = now' ]_vars


(* C25: no audit entry holds a secret.  Its action is one of the fixed      *)
(* tags, its credential id is an id the vault issued, its details map has   *)
(* no keys but the ones listed (none of which names a password or a         *)
(* sharing token), and no text it holds (service name, search query, tag)   *)
(* is the password of a credential; no name it holds is a master password   *)
(* or an export password.                                                   *)
AuditActions ==
  {"LOGIN", "LOGOUT", "ADD_CREDENTIAL", "VIEW_CREDENTIAL", "LIST_CREDENTIALS",
   "UPDATE_CREDENTIAL", "DELETE_CREDENTIAL", "SEARCH_CREDENTIALS",
   "GENERATE_SHARE_TOKEN", "EXPORT_VAULT"}

DetailKeys ==
  {"success", "service_name", "count", "updated_fields", "query", "tags",
   "results_count", "expires_in", "credentials_count"}

\* the records in the file as written
StoredRecords(f) ==
  IF Parses(f) THEN {f.credentials.data[i] : i \in 1..Len(f.credentials.data)}
  ELSE {}

PasswordsOf(inputs) == {x.password : x \in {y \in inputs : "password" \in DOMAIN y}}

\* every password a credential can be given, and the ones stored now
CredentialPasswords ==
  PasswordsOf(NewCredentials \cup VaultNewCredentials \cup ShareCredentials
              \cup Updates \cup VaultUpdates \cup AuditUpdates)
    \cup {r.password : r \in StoredRecords(file)}

\* master passwords and export passwords
EnteredPasswords == Passwords \cup VaultPasswords \cup ExportPasswords

SecretFree(entry) ==
  LET details == entry.details
  IN  /\ entry.action \in AuditActions \ EnteredPasswords
      /\ entry.credential_id # None
           => entry.credential_id[1] \in issued \ EnteredPasswords
      /\ DOMAIN details \subseteq DetailKeys
      /\ "service_name" \in DOMAIN details
           => details.service_name \notin CredentialPasswords
      /\ "query" \in DOMAIN details => details.query \notin CredentialPasswords
      /\ ("tags" \in DOMAIN details /\ details.tags # None)
           => \A i \in 1..Len(details.tags[1]) :
                Some(details.tags[1][i]) \notin CredentialPasswords
      /\ "updated_fields" \in DOMAIN details
           => details.updated_fields \cap EnteredPasswords = {}

C25_NoSecretInAudit ==
  \A i \in 1..Len(audit_logs) : SecretFree(audit_logs[i])

\* a credential with a password is stored, a token for it was just issued,
\* and the log holds the entries of the add, the search and the token
C25_Witness ==
  /\ ret.op = "generate_sharing_token" /\ ret.val # None
  /\ \E r \in StoredRecords(file) : r.password # None
  /\ \E i \in 1..Len(audit_logs) : audit_logs[i].action = "ADD_CREDENTIAL"
  /\ \E i \in 1..Len(audit_logs) : audit_logs[i].action = "SEARCH_CREDENTIALS"
  /\ \E i \in 1..Len(audit_logs) : audit_logs[i].action = "GENERATE_SHARE_TOKEN"


(* C26: what redeeming a token returns is fixed by the token and the time   *)
(* of the call: the payload it was issued with up to its expiry and None    *)
(* after it, whatever the session, the lockout and the store are at that    *)
(* moment; and redeeming leaves the session, the lockout counters, the      *)
(* vault file and the audit log as they were.                               *)
C26_RedeemIndependent ==
  [][ ret'.op = "decrypt_sharing_token"
      => /\ UNCHANGED <<file, session_key, last_activity, failed_attempts,
                        lockout_until, audit_logs>>
         /\ \A h \in held :
              h.token = ret'.arg
                => ret'.val = IF now' <= h.issued_at + h.expires_in
                              THEN Some(h.share) ELSE None ]_vars

\* a token is redeemed with success while the vault is locked out, holds no
\* session and no longer stores the record the token was issued for
C26_Witness ==
  /\ ret.op = "decrypt_sharing_token" /\ ret.val # None
  /\ \E h \in held : h.token = ret.arg /\ ret.val = Some(h.share)
  /\ session_key = None
  /\ now < lockout_until
  /\ StoredIds(file) = {}


(* C27: the ids of the stored records are pairwise distinct (the map is     *)
(* kept as the sequence of its records, each filed under its id field); a   *)
(* successful add returns an id that no stored record had; and an update    *)
(* leaves the set of stored ids and the created_at of every stored record   *)
(* as they were.                                                            *)
CreatedAt(f, credential_id) ==
  {r.created_at : r \in {x \in StoredRecords(f) : x.id = credential_id}}

IdsDistinct(f) ==
  Parses(f) => \A i, j \in 1..Len(f.credentials.data) :
                 f.credentials.data[i].id = f.credentials.data[j].id => i = j

C27_IdsStable ==
  [][ /\ IdsDistinct(file')
      /\ (ret'.op = "add_credential" /\ ret'.val # None)
           => /\ ret'.val[1] \notin StoredIds(file)
              /\ ret'.val[1] \in StoredIds(file')
      /\ ret'.op = "update_credential"
           => /\ StoredIds(file') = StoredIds(file)
              /\ \A id \in StoredIds(file) : CreatedAt(file', id) = CreatedAt(file, id)
    ]_vars

\* two records are stored and one of them was just updated, later than it
\* was created
C27_Witness ==
  /\ ret.op = "update_credential" /\ ret.val = TRUE
  /\ Cardinality(StoredIds(file)) = 2
  /\ \E r \in StoredRecords(file) :
       r.id = ret.arg[1] /\ r.updated_at > r.created_at


(* C28: a restart leaves no session, no failed attempts, no lockout and an  *)
(* empty audit log, and does not touch the vault file; the file holds the   *)
(* metadata and the encrypted blob and nothing else (no session key); and   *)
(* the first call after a restart and a successful authenticate, if it is   *)
(* a list, returns the records of the last successful write.                *)
FileLayout(f) ==
  Parses(f) => /\ DOMAIN f = {"exists", "metadata", "credentials"}
               /\ DOMAIN f.metadata = {"salt", "master_hash", "created_at", "version"}

\* the only call since the process started was a successful authenticate
FreshlyAuthenticated ==
  /\ ret.op = "authenticate" /\ ret.val = TRUE
  /\ Len(audit_logs) = 1

C28_RestartKeepsRecords ==
  [][ /\ ret'.op = "restart"
           => /\ session_key' = None
              /\ failed_attempts' = 0
              /\ lockout_until' = 0
              /\ audit_logs' = <<>>
              /\ file' = file
      /\ FileLayout(file')
      /\ (FreshlyAuthenticated /\ ret'.op = "get_all_credentials")
           => ret'.val = file.credentials.data ]_vars


(* C29: a valid session comes into being only by an authenticate call that  *)
(* is made while the vault is not locked out and whose password is the one  *)
(* the stored verifier was made from; the session key changes to a new key  *)
(* in no other step; and an authenticate call that returns False leaves the *)
(* session key as it was.                                                   *)
AcceptedLogin ==
  /\ ret'.op = "authenticate" /\ ret'.val = TRUE
  /\ ~(now < lockout_until)
  /\ Parses(file)
  /\ file.metadata.master_hash.password = ret'.arg

C29_SessionOnlyByLogin ==
  [][ /\ (~HasSession /\ HasSession') => AcceptedLogin
      /\ (session_key' # session_key /\ session_key' # None) => AcceptedLogin
      /\ (ret'.op = "authenticate" /\ ret'.val = FALSE)
           => session_key' = session_key ]_vars

\* a wrong password was just rejected while a session made by an earlier
\* login is still valid
C29_Witness ==
  /\ ret.op = "authenticate" /\ ret.val = FALSE /\ ret.consulted
  /\ HasSession
  /\ failed_attempts > 0


(* C30: a write made by add, update or delete changes nothing in the vault  *)
(* file but the encrypted blob: salt, password verifier, created_at and     *)
(* version are as before, so the password the verifier accepted before the  *)
(* write is still the one it accepts after it.                              *)
MutationOps == {"add_credential", "update_credential", "delete_credential"}

C30_WriteKeepsMetadata ==
  [][ (ret'.op \in MutationOps /\ Parses(file))
      => /\ Parses(file')
         /\ file'.metadata = file.metadata
         /\ \A p \in Passwords :
              verify_master_password(p, file'.metadata.master_hash)
                <=> verify_master_password(p, file.metadata.master_hash) ]_vars

\* a delete has replaced the blob, after a clock step and with a record
\* left, in a vault whose metadata is still that of its creation
C30_Witness ==
  /\ ret.op = "delete_credential" /\ ret.val = TRUE
  /\ Parses(file)
  /\ now > file.metadata.created_at
  /\ Len(file.credentials.data) > 0


(* C31: lockout and session do not touch each other.  An authenticate call  *)
(* that returns False leaves session_key and last_activity as they were;    *)
(* while the vault is locked out, add, get, update and delete on a valid    *)
(* session whose key opens the stored blob succeed as they do otherwise;    *)
(* and logout leaves failed_attempts and lockout_until as they were.        *)
SessionOpensBlob ==
  /\ HasSession
  /\ Parses(file)
  /\ file.credentials.key = session_key[1]

C31_LockoutSessionIndependent ==
  [][ /\ (ret'.op = "authenticate" /\ ret'.val = FALSE)
           => /\ session_key' = session_key
              /\ last_activity' = last_activity
      /\ (SessionOpensBlob /\ now < lockout_until)
           => /\ ret'.op = "add_credential" => ret'.val # None
              /\ ret'.op = "get_credential" => ret'.val = Stored(ret'.arg)
              /\ (ret'.op = "update_credential" /\ ret'.arg[1] \in StoredIds(file))
                   => ret'.val = TRUE
              /\ (ret'.op = "delete_credential" /\ ret'.arg \in StoredIds(file))
                   => ret'.val = TRUE
      /\ ret'.op = "logout"
           => /\ failed_attempts' = failed_attempts
              /\ lockout_until' = lockout_until ]_vars

\* a record was just added on a valid session while the vault is locked out
C31_Witness ==
  /\ ret.op = "add_credential" /\ ret.val # None
  /\ now < lockout_until
  /\ failed_attempts >= max_attempts


(* C32: update or delete of an id that is not in the store returns False    *)
(* and leaves the vault file, and so every stored record with its           *)
(* updated_at, as it was.                                                   *)
C32_UnknownIdNotFound ==
  [][ /\ (ret'.op = "update_credential" /\ ret'.arg[1] \notin StoredIds(file))
           => (ret'.val = FALSE /\ file' = file)
      /\ (ret'.op = "delete_credential" /\ ret'.arg \notin StoredIds(file))
           => (ret'.val = FALSE /\ file' = file) ]_vars

\* an update of an id that is not stored was just refused on a valid session
\* while another record is stored
C32_Witness ==
  /\ ret.op = "update_credential" /\ ret.val = FALSE
  /\ ret.arg[1] \notin StoredIds(file)
  /\ StoredIds(file) # {}
  /\ HasSession /\ last_activity = now


(* C33: last_activity is set by a successful authenticate, by a vault read  *)
(* or write and by logout, and by nothing else: is_authenticated,           *)
(* is_locked_out, reading the audit log and redeeming a token leave it as   *)
(* it was.  A session whose last activity is more than session_timeout      *)
(* back is reported invalid by the next call that checks it; and the clock  *)
(* alone does not discard the key.                                          *)
PollOps == {"is_authenticated", "is_locked_out", "get_audit_logs",
            "decrypt_sharing_token"}

ActivitySetters ==
  {"authenticate", "logout", "add_credential", "get_credential",
   "get_all_credentials", "update_credential", "delete_credential",
   "search_credentials", "generate_sharing_token", "export_vault",
   "get_vault_stats"}

IdleExpired == session_key # None /\ now - last_activity > session_timeout

C33_IdleFromLastActivity ==
  [][ /\ ret'.op \in PollOps => last_activity' = last_activity
      /\ last_activity' # last_activity => ret'.op \in ActivitySetters
      /\ IdleExpired
           => /\ ret'.op = "is_authenticated"
                   => (ret'.val = FALSE /\ session_key' = None)
              /\ ret'.op = "get_credential"
                   => (ret'.val = None /\ session_key' = None)
              /\ ret'.op = "add_credential"
                   => (ret'.val = None /\ session_key' = None /\ file' = file)
              /\ ret'.op = "get_audit_logs"
                   => (ret'.val = <<>> /\ session_key' = None)
      /\ ret'.op = "tick" => session_key' = session_key ]_vars

\* a session that was polled as valid at the last moment of its timeout is
\* found expired by the next poll, with the time of its last activity kept
C33_Witness ==
  /\ ret.op = "is_authenticated" /\ ret.val = FALSE
  /\ session_key = None
  /\ last_activity # 0
  /\ now - last_activity > session_timeout
  /\ now - last_activity <= session_timeout + TickLen
  /\ Parses(file)


(* C34: the end of a lockout does not reset the failure counter.  A wrong   *)
(* password entered when failed_attempts is max_attempts or more and the    *)
(* lockout has ended locks the vault again at once, for lockout_duration    *)
(* from that moment; the clock never changes the counter; and the counter   *)
(* goes down only by a successful authenticate.                             *)
C34_CounterSurvivesCooldown ==
  [][ /\ ( /\ ret'.op = "authenticate"
           /\ failed_attempts >= max_attempts
           /\ ~(now < lockout_until)
           /\ file.exists /\ ~CorrectPassword(ret'.arg) )
           => /\ ret'.val = FALSE
              /\ failed_attempts' = failed_attempts + 1
              /\ lockout_until' = now + lockout_duration
      /\ ret'.op = "tick" => failed_attempts' = failed_attempts
      /\ failed_attempts' < failed_attempts
           => (ret'.op = "authenticate" /\ ret'.val = TRUE) ]_vars

\* one wrong password after the end of a lockout has locked the vault again
C34_Witness ==
  /\ ret.op = "authenticate" /\ ret.val = FALSE /\ ret.consulted
  /\ failed_attempts = max_attempts + 1
  /\ lockout_until = now + lockout_duration


(* C35: a mutation whose read of the stored blob fails (the blob does not   *)
(* decrypt under the session key, or a record in it does not validate)      *)
(* while the session is valid does not write: the vault file is as it was.  *)
C35_UnreadableNotOverwritten ==
  [][ ( /\ ret'.op \in MutationOps
        /\ HasSession
        /\ Parses(file)
        /\ ~LoadOk )
      => file' = file ]_vars


(* C36: every stored record has a service_name, a username and a password   *)
(* (none of them null), and a list made on a valid session whose key opens  *)
(* the blob returns the stored records.                                     *)
RequiredPresent(f) ==
  \A r \in StoredRecords(f) :
    r.service_name # None /\ r.username # None /\ r.password # None

C36_StoredRecordsLoadable ==
  [][ /\ RequiredPresent(file')
      /\ (SessionOpensBlob /\ ret'.op = "get_all_credentials")
           => ret'.val = file.credentials.data ]_vars


(* C37: whenever the session is valid and a vault file is there, the        *)
(* session key is the key under which the stored blob is encrypted.         *)
C37_SessionKeyOpensBlob ==
  (HasSession /\ Parses(file)) => file.credentials.key = session_key[1]


(* C38: a payload that redeeming returns is the payload of a token that the *)
(* vault issued: the redeemed string is one that generate_sharing_token     *)
(* returned and handed over, and the payload is the one it was issued for.  *)
C38_RedeemedWasIssued ==
  [][ (ret'.op = "decrypt_sharing_token" /\ ret'.val # None)
      => \E h \in held : h.token = ret'.arg /\ ret'.val = Some(h.share) ]_vars


(* C39: a successful add leaves every stored record as it was and stores    *)
(* one more; a successful update leaves every record but the target as it   *)
(* was and stores no more and no fewer; a successful delete removes the     *)
(* target and nothing else; get, list, search, export, issuing a token and  *)
(* statistics leave the vault file as it was.                               *)
ReadOps ==
  {"get_credential", "get_all_credentials", "search_credentials", "export_vault",
   "generate_sharing_token", "get_vault_stats"}

Others(f, credential_id) == {r \in StoredRecords(f) : r.id # credential_id}

C39_OneRecordPerMutation ==
  [][ /\ (ret'.op = "add_credential" /\ ret'.val # None)
           => /\ StoredRecords(file) \subseteq StoredRecords(file')
              /\ Cardinality(StoredRecords(file')) = Cardinality(StoredRecords(file)) + 1
      /\ (ret'.op = "update_credential" /\ ret'.val = TRUE)
           => /\ Others(file', ret'.arg[1]) = Others(file, ret'.arg[1])
              /\ StoredIds(file') = StoredIds(file)
      /\ (ret'.op = "delete_credential" /\ ret'.val = TRUE)
           => StoredRecords(file') = Others(file, ret'.arg)
      /\ ret'.op \in ReadOps => file' = file ]_vars

====
